---- MODULE Spec2Model ----
(***************************************************************************)
(* Date and time-zone helpers of rbc-timezone-utils (date.js and           *)
(* timezones/timezones.js), modelled as a state machine: the environment   *)
(* (default zone, system clock, the list memoized at module load) is the   *)
(* state, and every exported function is one action that records the call  *)
(* and its result.                                                         *)
(*                                                                         *)
(* Instants are milliseconds since the model's epoch, as in the code.      *)
(* moment-timezone's and Date's calendar arithmetic is kept down to the    *)
(* day: year(), month() and date() are one field, `date`, the number of    *)
(* days since the epoch day; the clock fields are the code's.              *)
(* Strings are sequences of one-character strings.                         *)
(***************************************************************************)
EXTENDS Integers, Sequences, FiniteSets, TLC

VARIABLES TZ, now, loadedAt, COMMON_ZONES, d, call, result

vars == <<TZ, now, loadedAt, COMMON_ZONES, d, call, result>>

(***************************************************************************)
(* Bounds of the model.                                                    *)
(***************************************************************************)
\* instants are sampled every half hour from the epoch, this many times
MaxHalfHours == 144
\* shiftDate / shiftHour are called with -MaxShift .. MaxShift
MaxShift == 2
\* humanizedDuration spans run to this many quarter hours either way
MaxQuarters == 16
\* the system clock advances this many times after the module was loaded
MaxTicks == 1

(***************************************************************************)
(* Units.                                                                  *)
(***************************************************************************)
SecondMs == 1000
MinuteMs == 60 * 1000
HourMs == 60 * 60 * 1000
DayMs == 24 * 60 * 60 * 1000

Abs(x) == IF x < 0 THEN -x ELSE x

(***************************************************************************)
(* Strings.                                                                *)
(***************************************************************************)
\* the characters the model's strings use, in UTF-16 code unit order
CodeUnits == <<" ","(",")","+","-","/","0","1","2","3","4","5","6","7","8","9",":","A","B","C","D","E","F","G","H","I","J","K","L","M","N","O","P","Q","R","S","T","U","V","W","X","Y","Z","_","a","b","c","d","e","f","g","h","i","j","k","l","m","n","o","p","q","r","s","t","u","v","w","x","y","z">>

charCodeAt(c) == CHOOSE i \in DOMAIN CodeUnits : CodeUnits[i] = c

\* a < b on two strings: the first differing code unit decides, a proper prefix is smaller
RECURSIVE StrLess(_, _)
StrLess(a, b) ==
  IF b = <<>> THEN FALSE
  ELSE IF a = <<>> THEN TRUE
  ELSE IF Head(a) = Head(b) THEN StrLess(Tail(a), Tail(b))
  ELSE charCodeAt(Head(a)) < charCodeAt(Head(b))

Digits == <<"0","1","2","3","4","5","6","7","8","9">>

DigitChar(n) == Digits[n + 1]

DigitValue(c) == (CHOOSE i \in DOMAIN Digits : Digits[i] = c) - 1

IsDigit(c) == \E i \in DOMAIN Digits : Digits[i] = c

\* two decimal digits, zero padded
Pad2(n) == <<DigitChar((n \div 10) % 10), DigitChar(n % 10)>>

(***************************************************************************)
(* Zone identifiers and the time-zone database.                            *)
(***************************************************************************)
UTC == <<"U","T","C">>
NewYork == <<"A","m","e","r","i","c","a","/","N","e","w","_","Y","o","r","k">>
Toronto == <<"A","m","e","r","i","c","a","/","T","o","r","o","n","t","o">>
Sydney == <<"A","u","s","t","r","a","l","i","a","/","S","y","d","n","e","y">>
Kolkata == <<"A","s","i","a","/","K","o","l","k","a","t","a">>
StJohns == <<"A","m","e","r","i","c","a","/","S","t","_","J","o","h","n","s">>
SaoPaulo == <<"A","m","e","r","i","c","a","/","S","a","o","_","P","a","u","l","o">>
PortOfSpain == <<"A","m","e","r","i","c","a","/","P","o","r","t","_","o","f","_","S","p","a","i","n">>
\* an identifier the database does not know
Phobos == <<"M","a","r","s","/","P","h","o","b","o","s">>
\* an omitted (undefined or empty) zone argument
NoZone == <<>>

\* A zone of the database, as moment-timezone unpacks it: offsets[i], in minutes
\* WEST of UTC, applies to the instants before untils[i]; the last offset has no until.
\* The rules are an excerpt: each zone with daylight saving has an old transition
\* long before the epoch, then one spring-forward gap and one fall-back overlap
\* inside the sampled instants.
ZoneData(name) ==
  CASE name = UTC -> [untils |-> <<>>, offsets |-> <<0>>]
    [] name = NewYork -> [untils |-> <<-(400 * HourMs), 31 * HourMs, 54 * HourMs>>, offsets |-> <<240, 300, 240, 300>>]
    [] name = Toronto -> [untils |-> <<-(400 * HourMs), 31 * HourMs, 54 * HourMs>>, offsets |-> <<240, 300, 240, 300>>]
    [] name = Sydney -> [untils |-> <<-(400 * HourMs), 16 * HourMs, 64 * HourMs>>, offsets |-> <<-600, -660, -600, -660>>]
    [] name = Kolkata -> [untils |-> <<>>, offsets |-> <<-330>>]
    [] name = StJohns -> [untils |-> <<-(400 * HourMs), 59 * (HourMs \div 2), 105 * (HourMs \div 2)>>, offsets |-> <<150, 210, 150, 210>>]
    [] name = SaoPaulo -> [untils |-> <<-(400 * HourMs), 27 * HourMs, 50 * HourMs>>, offsets |-> <<120, 180, 120, 180>>]
    [] name = PortOfSpain -> [untils |-> <<>>, offsets |-> <<240>>]

KnownZones == {UTC, NewYork, Toronto, Sydney, Kolkata, StJohns, SaoPaulo, PortOfSpain}

\* moment.tz.zone(name): null for an identifier without data
hasZone(name) == name \in KnownZones

(***************************************************************************)
(* moment-timezone: Zone.prototype.                                        *)
(***************************************************************************)
\* Zone.prototype._index
ZoneIndex(zone, ts) ==
  LET hit == {i \in DOMAIN zone.untils : ts < zone.untils[i]}
  IN IF hit = {} THEN Len(zone.offsets) ELSE CHOOSE i \in hit : \A j \in hit : i <= j

\* Zone.prototype.utcOffset: minutes west of UTC at the instant ts
ZoneUtcOffset(zone, ts) == zone.offsets[ZoneIndex(zone, ts)]

moveAmbiguousForward == FALSE

moveInvalidForward == TRUE

\* Zone.prototype.parse: the offset, in minutes west, of the wall-clock time whose
\* fields read as UTC give `target`
ZoneParse(zone, target) ==
  LET offsets == zone.offsets
      untils == zone.untils
      adjusted(i) ==
        LET offset == offsets[i]
            offsetNext == offsets[i + 1]
            offsetPrev == offsets[IF i > 1 THEN i - 1 ELSE i]
        IN IF offset < offsetNext /\ moveAmbiguousForward THEN offsetNext
           ELSE IF offset > offsetPrev /\ moveInvalidForward THEN offsetPrev
           ELSE offset
      hit == {i \in DOMAIN untils : target < untils[i] - adjusted(i) * MinuteMs}
  IN IF hit = {} THEN offsets[Len(offsets)]
     ELSE offsets[CHOOSE i \in hit : \A j \in hit : i <= j]

(***************************************************************************)
(* Calendar and clock fields.                                              *)
(***************************************************************************)
\* the fields of a wall-clock time given in milliseconds
Fields(w) ==
  [date |-> w \div DayMs,
   hour |-> (w % DayMs) \div HourMs,
   minute |-> (w % HourMs) \div MinuteMs,
   second |-> (w % MinuteMs) \div SecondMs,
   millisecond |-> w % SecondMs]

\* MakeDate(MakeDay(..), MakeTime(..)): the wall-clock time of the fields
MakeDate(f) ==
  f.date * DayMs + f.hour * HourMs + f.minute * MinuteMs + f.second * SecondMs + f.millisecond

(***************************************************************************)
(* Date, read and built through the environment's default zone TZ.         *)
(***************************************************************************)
\* LocalTime(t): the wall-clock time the getters getFullYear() .. getMilliseconds() read
LocalTime(t) == t - ZoneUtcOffset(ZoneData(TZ), t) * MinuteMs

DateGetters(t) == Fields(LocalTime(t))

\* UTC(w): the instant of a wall-clock time of the default zone, as ECMAScript 2018
\* and later define it: a time that a transition skips or repeats is read with the
\* offset before the transition (a skipped time moves forward by the gap, a
\* repeated time is its first pass).
DateUTC(w) ==
  LET zone == ZoneData(TZ)
      Min(a, b) == IF a < b THEN a ELSE b
      hit == {i \in DOMAIN zone.untils :
                w < zone.untils[i] - Min(zone.offsets[i], zone.offsets[i + 1]) * MinuteMs}
  IN IF hit = {} THEN w + zone.offsets[Len(zone.offsets)] * MinuteMs
     ELSE w + zone.offsets[CHOOSE i \in hit : \A j \in hit : i <= j] * MinuteMs

\* new Date(year, month, date, hours, minutes, seconds, ms)
NewDate(f) == DateUTC(MakeDate(f))

(***************************************************************************)
(* moment and moment-timezone. A moment is its instant, its _isUTC flag    *)
(* and its zone _z (NoZone when it has none).                              *)
(***************************************************************************)
\* moment(t): a moment in local mode
moment(t) == [ts |-> t, isUTC |-> FALSE, z |-> NoZone]

\* moment.utc(input)
momentUtc(t) == [ts |-> t, isUTC |-> TRUE, z |-> NoZone]

\* moment.fn.tz(name): sets the zone when the database has it; otherwise logs
\* "Moment Timezone has no data for <name>" and leaves the moment as it was
fnTz(m, name) ==
  IF hasZone(name) THEN [ts |-> m.ts, isUTC |-> TRUE, z |-> name] ELSE m

\* moment.fn.utcOffset(): minutes EAST of UTC
utcOffset(m) ==
  IF m.z # NoZone THEN -ZoneUtcOffset(ZoneData(m.z), m.ts)
  ELSE IF m.isUTC THEN 0
  ELSE -ZoneUtcOffset(ZoneData(TZ), m.ts)

\* m.year(), m.month(), m.date(), m.hour(), m.minute(), m.second(), m.millisecond()
momentGetters(m) == Fields(m.ts + utcOffset(m) * MinuteMs)

\* the offset taken at the instant the fields give when read as UTC, as
\* Zone.prototype.utcOffset does, instead of Zone.prototype.parse
momentTzFields_OffsetAtUtc(f, name) ==
  LET out == momentUtc(MakeDate(f))
      shifted == IF hasZone(name)
                 THEN [out EXCEPT !.ts = out.ts + ZoneUtcOffset(ZoneData(name), out.ts) * MinuteMs]
                 ELSE out
  IN fnTz(shifted, name)

\* moment.tz(input, name) for an input without its own offset (an array of fields,
\* a string without a zone): the fields are read as UTC, then moved by zone.parse
momentTzFields(f, name) ==
  LET out == momentUtc(MakeDate(f))
      shifted == IF hasZone(name)
                 THEN [out EXCEPT !.ts = out.ts + ZoneParse(ZoneData(name), out.ts) * MinuteMs]
                 ELSE out
  IN fnTz(shifted, name)

\* moment.tz(input, name) for an input that is an instant (a number, or a string
\* that carries its offset): needsOffset is false
momentTzInstant(t, name) == fnTz(momentUtc(t), name)

\* m.toDate()
toDateOf(m) == m.ts

\* moment.fn.format('Z') (colon TRUE) and format('ZZ') (colon FALSE) of an offset
\* in minutes east
formatOffset(offset, colon) ==
  LET sign == IF offset < 0 THEN "-" ELSE "+"
      a == Abs(offset)
  IN <<sign>> \o Pad2(a \div 60) \o (IF colon THEN <<":">> ELSE <<>>) \o Pad2(a % 60)

\* parseInt(string): an optional sign, then the decimal digits up to the first
\* character that is not one
RECURSIVE DigitRun(_, _)
DigitRun(s, acc) ==
  IF s = <<>> \/ ~IsDigit(Head(s)) THEN acc
  ELSE DigitRun(Tail(s), acc * 10 + DigitValue(Head(s)))

parseInt(s) ==
  IF s # <<>> /\ Head(s) = "-" THEN -DigitRun(Tail(s), 0)
  ELSE IF s # <<>> /\ Head(s) = "+" THEN DigitRun(Tail(s), 0)
  ELSE DigitRun(s, 0)

(***************************************************************************)
(* date.js                                                                 *)
(***************************************************************************)
\* the day taken from the UTC fields
toDate_UTC(t) == t - (t % DayMs)

\* new Date(d.getFullYear(), d.getMonth(), d.getDate())
toDate(t) ==
  NewDate([date |-> DateGetters(t).date, hour |-> 0, minute |-> 0, second |-> 0, millisecond |-> 0])

isSameDay(a, b) == DateGetters(a).date = DateGetters(b).date

shift(t, millis) == t + millis

\* the factor 24 left out
shiftDate_Hours(t, n) == shift(t, n * 60 * 60 * 1000)

shiftDate(t, n) == shift(t, n * 24 * 60 * 60 * 1000)

shiftHour(t, n) == shift(t, n * 60 * 60 * 1000)

\* the first non-zero of the clock fields, or 0
hasTime(t) ==
  LET f == DateGetters(t)
  IN IF f.hour # 0 THEN f.hour
     ELSE IF f.minute # 0 THEN f.minute
     ELSE IF f.second # 0 THEN f.second
     ELSE f.millisecond

\* moment.duration(ms).humanize(), for spans below 22 hours: the magnitude of the
\* span, rounded, in the largest unit that fits
humanize(ms) ==
  LET a == Abs(ms)
      Round(x, unit) == (2 * x + unit) \div (2 * unit)
      seconds == Round(a, SecondMs)
      minutes == Round(a, MinuteMs)
      hours == Round(a, HourMs)
  IN IF seconds < 45 THEN [kind |-> "humanize", unit |-> "a few seconds", count |-> 0]
     ELSE IF minutes <= 1 THEN [kind |-> "humanize", unit |-> "a minute", count |-> 1]
     ELSE IF minutes < 45 THEN [kind |-> "humanize", unit |-> "minutes", count |-> minutes]
     ELSE IF hours <= 1 THEN [kind |-> "humanize", unit |-> "an hour", count |-> 1]
     ELSE [kind |-> "humanize", unit |-> "hours", count |-> hours]

\* (minutes / 60.0).toFixed(1) + " hours", for spans that are whole quarter hours
\* (their quotient is exact in binary): the tenths of an hour nearest to the span, a
\* tie going away from zero, and the sign
toFixedHours(ms) ==
  LET tenths == (2 * Abs(ms) + HourMs \div 10) \div (2 * (HourMs \div 10))
  IN [kind |-> "toFixed", unit |-> IF ms < 0 THEN "-hours" ELSE "hours", count |-> tenths]

humanizedDuration(start, end) ==
  LET diff == end - start
  IN IF diff <= 60 * MinuteMs \/ diff % (60 * MinuteMs) = 0 THEN humanize(diff)
     ELSE toFixedHours(diff)

(***************************************************************************)
(* timezones/timezones.js                                                  *)
(***************************************************************************)
\* Object.keys(TIMEZONES): the identifiers of timezones.json, in the file's order
TimezoneKeys == <<Sydney, UTC, Toronto, StJohns, Kolkata, NewYork, SaoPaulo>>

\* TIMEZONES[zone]: the friendly name of an identifier of the table
TIMEZONES(zone) ==
  CASE zone = UTC -> <<"C","o","o","r","d","i","n","a","t","e","d"," ","U","n","i","v","e","r","s","a","l"," ","T","i","m","e">>
    [] zone = NewYork -> <<"E","a","s","t","e","r","n"," ","T","i","m","e">>
    [] zone = Toronto -> <<"E","a","s","t","e","r","n"," ","T","i","m","e"," ","-"," ","T","o","r","o","n","t","o">>
    [] zone = Sydney -> <<"S","y","d","n","e","y">>
    [] zone = Kolkata -> <<"I","n","d","i","a"," ","S","t","a","n","d","a","r","d"," ","T","i","m","e">>
    [] zone = StJohns -> <<"N","e","w","f","o","u","n","d","l","a","n","d"," ","T","i","m","e">>
    [] zone = SaoPaulo -> <<"B","r","a","s","i","l","i","a"," ","T","i","m","e">>

inTIMEZONES(zone) == \E i \in DOMAIN TimezoneKeys : TimezoneKeys[i] = zone

\* the moment is never moved to the zone
zonedToLocal_NoTz(t, zone) ==
  LET m == moment(t)
  IN NewDate(momentGetters(m))

zonedToLocal(t, zone) ==
  LET m == fnTz(moment(t), zone)
  IN NewDate(momentGetters(m))

\* the fields read as local time first, the moment moved to the zone afterwards
localToZoned_ViaLocal(t, zone) == toDateOf(fnTz(moment(NewDate(DateGetters(t))), zone))

localToZoned(t, zone) == toDateOf(momentTzFields(DateGetters(t), zone))

\* new Date(str): a string with an offset is that instant, a date-time without one
\* is read in the default zone
DateParse(str) ==
  IF str.hasTzm THEN MakeDate(str.f) - str.tzm * MinuteMs ELSE DateUTC(MakeDate(str.f))

\* moment.tz(str, zone)
momentTzString(str, zone) ==
  IF str.hasTzm THEN momentTzInstant(MakeDate(str.f) - str.tzm * MinuteMs, zone)
  ELSE momentTzFields(str.f, zone)

\* the string parsed as new Date does, the moment moved to the zone afterwards
parseInZone_ConvertAfter(str, zone) ==
  IF zone # NoZone THEN toDateOf(fnTz(moment(DateParse(str)), zone)) ELSE DateParse(str)

parseInZone(str, zone) ==
  IF zone # NoZone THEN toDateOf(momentTzString(str, zone)) ELSE DateParse(str)

toMoment(t, zone) == IF zone # NoZone THEN fnTz(moment(t), zone) ELSE moment(t)

\* formatInZone with the pattern 'YYYY-MM-DDTHH:mm:ss.SSSZ': the fields and the
\* offset the text shows
formatInZone(t, zone) ==
  LET m == toMoment(t, zone)
  IN [f |-> momentGetters(m), Z |-> formatOffset(utcOffset(m), TRUE)]

\* String.prototype.replace(/_/, ' '): the first underscore only
RECURSIVE replaceFirst(_)
replaceFirst(s) ==
  IF s = <<>> THEN <<>>
  ELSE IF Head(s) = "_" THEN <<" ">> \o Tail(s)
  ELSE <<Head(s)>> \o replaceFirst(Tail(s))

beautify(zone) == replaceFirst(zone)

humanizeZone(zone) ==
  LET offset == formatOffset(utcOffset(momentTzInstant(now, zone)), TRUE)
      name == IF inTIMEZONES(zone) THEN TIMEZONES(zone) ELSE beautify(zone)
  IN <<"(","G","M","T">> \o offset \o <<")"," ">> \o name

\* the offset formatted with 'Z', whose colon ends the number parseInt reads
RECURSIVE zonesWithOffset_Colon(_, _)
zonesWithOffset_Colon(zones, nowM) ==
  IF zones = <<>> THEN <<>>
  ELSE LET m == fnTz(nowM, Head(zones))
       IN <<[name |-> Head(zones), offset |-> parseInt(formatOffset(utcOffset(m), TRUE))]>>
          \o zonesWithOffset_Colon(Tail(zones), m)

\* zones.map(z => ({ name: z, offset: parseInt(nowM.tz(z).format('ZZ')) })): the one
\* moment nowM is moved from zone to zone
RECURSIVE zonesWithOffset(_, _)
zonesWithOffset(zones, nowM) ==
  IF zones = <<>> THEN <<>>
  ELSE LET m == fnTz(nowM, Head(zones))
       IN <<[name |-> Head(zones), offset |-> parseInt(formatOffset(utcOffset(m), FALSE))]>>
          \o zonesWithOffset(Tail(zones), m)

\* the order of sortBy(zones, ['offset', 'name'])
zoneBefore(a, b) ==
  a.offset < b.offset \/ (a.offset = b.offset /\ StrLess(a.name, b.name))

\* lodash sortBy: a stable ascending sort
RECURSIVE insertSorted(_, _)
insertSorted(x, sorted) ==
  IF sorted = <<>> THEN <<x>>
  ELSE IF zoneBefore(x, Head(sorted)) THEN <<x>> \o sorted
  ELSE <<Head(sorted)>> \o insertSorted(x, Tail(sorted))

RECURSIVE sortBy(_)
sortBy(zones) ==
  IF zones = <<>> THEN <<>>
  ELSE insertSorted(zones[Len(zones)], sortBy(SubSeq(zones, 1, Len(zones) - 1)))

sortZones(zones, clock) ==
  LET nowM == moment(clock)
      sorted == sortBy(zonesWithOffset(zones, nowM))
  IN [i \in DOMAIN sorted |-> sorted[i].name]

(***************************************************************************)
(* The inputs the calls are made with.                                     *)
(***************************************************************************)
\* 00:04:56.789 past a half hour, so that the minute, second and millisecond
\* fields are not all zero
SubMs == {0, 4 * MinuteMs + 56 * SecondMs + 789}

Instants == {k * (HourMs \div 2) + e : k \in 0..MaxHalfHours, e \in SubMs}

\* the zone a process may run in
DefaultZones == {UTC, NewYork, Sydney, SaoPaulo}

ZoneArgs == {UTC, NewYork, Sydney, Kolkata, StJohns, SaoPaulo, Phobos}

\* an ISO 8601 date-time string ('2018-01-23T12:34:56.789', with or without
\* '+1100'), as the parsers tokenize it: its fields and, when it carries one, its
\* offset in minutes east
Strings ==
  {[f |-> Fields(w), hasTzm |-> FALSE, tzm |-> 0] : w \in Instants}
    \cup {[f |-> Fields(w), hasTzm |-> TRUE, tzm |-> o] : w \in Instants, o \in {0, 660}}

\* the zone arguments parseInZone is called with
ParseZoneArgs == {NewYork, Sydney, SaoPaulo, Phobos, NoZone}

NoStr == [f |-> Fields(0), hasTzm |-> FALSE, tzm |-> 0]

\* the system clock when the module is loaded, and how far it moves at a time
LoadTimes == {12 * HourMs, 40 * HourMs}

TickMs == 30 * HourMs

Idle == [op |-> "idle", t |-> 0, u |-> 0, zone |-> NoZone, n |-> 0, str |-> NoStr]

(***************************************************************************)
(* The state machine.                                                      *)
(***************************************************************************)
\* how a call ends: none of the functions has a throw statement, and moment-timezone
\* logs an error for a zone it has no data for and carries on, so every call returns
\* (value: a Date or a number; flag: a boolean; text: a string; zones: a list of
\* identifiers; phrase: a duration text; shown: a formatted date)
NoResult ==
  [threw |-> FALSE, value |-> 0, flag |-> FALSE, text |-> <<>>, zones |-> <<>>,
   phrase |-> [kind |-> "", unit |-> "", count |-> 0],
   shown |-> [f |-> Fields(0), Z |-> <<>>]]

Returned(v) == [NoResult EXCEPT !.value = v]

ReturnedFlag(b) == [NoResult EXCEPT !.flag = b]

ReturnedText(s) == [NoResult EXCEPT !.text = s]

ReturnedZones(l) == [NoResult EXCEPT !.zones = l]

ReturnedPhrase(p) == [NoResult EXCEPT !.phrase = p]

ReturnedShown(x) == [NoResult EXCEPT !.shown = x]

\* timezones.js is loaded: COMMON_ZONES is computed from the clock of that moment
Init ==
  /\ TZ \in DefaultZones
  /\ now \in LoadTimes
  /\ loadedAt = now
  /\ COMMON_ZONES = sortZones(TimezoneKeys, now)
  /\ d = 0
  /\ call = Idle
  /\ result = NoResult

\* Every call below records its arguments in `call`, how it ended in `result`, and in
\* `d` the Date argument as the call leaves it; none of the functions assigns to
\* its argument or to the environment.
Env == <<TZ, now, loadedAt, COMMON_ZONES>>

ToDate ==
  /\ call.op = "idle"
  /\ \E t \in Instants :
       /\ call' = [Idle EXCEPT !.op = "toDate", !.t = t]
       /\ result' = Returned(toDate(t))
       /\ d' = t
       /\ UNCHANGED Env

IsSameDay ==
  /\ call.op = "idle"
  /\ \E a \in Instants, k \in -4..4 :
       /\ call' = [Idle EXCEPT !.op = "isSameDay", !.t = a, !.u = a + k * 6 * HourMs]
       /\ result' = ReturnedFlag(isSameDay(a, a + k * 6 * HourMs))
       /\ d' = a
       /\ UNCHANGED Env

ShiftDate ==
  /\ call.op = "idle"
  /\ \E t \in Instants, n \in -MaxShift..MaxShift :
       /\ call' = [Idle EXCEPT !.op = "shiftDate", !.t = t, !.n = n]
       /\ result' = Returned(shiftDate(t, n))
       /\ d' = t
       /\ UNCHANGED Env

ShiftHour ==
  /\ call.op = "idle"
  /\ \E t \in Instants, n \in -MaxShift..MaxShift :
       /\ call' = [Idle EXCEPT !.op = "shiftHour", !.t = t, !.n = n]
       /\ result' = Returned(shiftHour(t, n))
       /\ d' = t
       /\ UNCHANGED Env

HasTime ==
  /\ call.op = "idle"
  /\ \E t \in Instants :
       /\ call' = [Idle EXCEPT !.op = "hasTime", !.t = t]
       /\ result' = Returned(hasTime(t))
       /\ d' = t
       /\ UNCHANGED Env

HumanizedDuration ==
  /\ call.op = "idle"
  /\ \E start \in {0, 36 * HourMs}, q \in -MaxQuarters..MaxQuarters :
       /\ call' = [Idle EXCEPT !.op = "humanizedDuration", !.t = start,
                               !.u = start + q * 15 * MinuteMs]
       /\ result' = ReturnedPhrase(humanizedDuration(start, start + q * 15 * MinuteMs))
       /\ d' = start
       /\ UNCHANGED Env

ZonedToLocal ==
  /\ call.op = "idle"
  /\ \E t \in Instants, zone \in ZoneArgs :
       /\ call' = [Idle EXCEPT !.op = "zonedToLocal", !.t = t, !.zone = zone]
       /\ result' = Returned(zonedToLocal(t, zone))
       /\ d' = t
       /\ UNCHANGED Env

LocalToZoned ==
  /\ call.op = "idle"
  /\ \E t \in Instants, zone \in ZoneArgs :
       /\ call' = [Idle EXCEPT !.op = "localToZoned", !.t = t, !.zone = zone]
       /\ result' = Returned(localToZoned(t, zone))
       /\ d' = t
       /\ UNCHANGED Env

ParseInZone ==
  /\ call.op = "idle"
  /\ \E str \in Strings, zone \in ParseZoneArgs :
       /\ call' = [Idle EXCEPT !.op = "parseInZone", !.str = str, !.zone = zone]
       /\ result' = Returned(parseInZone(str, zone))
       /\ d' = 0
       /\ UNCHANGED Env

FormatInZone ==
  /\ call.op = "idle"
  /\ \E t \in Instants, zone \in ZoneArgs \cup {NoZone} :
       /\ call' = [Idle EXCEPT !.op = "formatInZone", !.t = t, !.zone = zone]
       /\ result' = ReturnedShown(formatInZone(t, zone))
       /\ d' = t
       /\ UNCHANGED Env

\* moment.tz.guess
CurrentZone ==
  /\ call.op = "idle"
  /\ call' = [Idle EXCEPT !.op = "currentZone"]
  /\ result' = ReturnedText(TZ)
  /\ d' = 0
  /\ UNCHANGED Env

GetCommonZones ==
  /\ call.op = "idle"
  /\ call' = [Idle EXCEPT !.op = "getCommonZones"]
  /\ result' = ReturnedZones(COMMON_ZONES)
  /\ d' = 0
  /\ UNCHANGED Env

HumanizeZone ==
  /\ call.op = "idle"
  /\ \E zone \in KnownZones :
       /\ call' = [Idle EXCEPT !.op = "humanizeZone", !.zone = zone]
       /\ result' = ReturnedText(humanizeZone(zone))
       /\ d' = 0
       /\ UNCHANGED Env

\* the call has returned
Return ==
  /\ call.op # "idle"
  /\ call' = Idle
  /\ result' = NoResult
  /\ d' = 0
  /\ UNCHANGED Env

\* the system clock moves on
Tick ==
  /\ call.op = "idle"
  /\ now < loadedAt + MaxTicks * TickMs
  /\ now' = now + TickMs
  /\ UNCHANGED <<TZ, loadedAt, COMMON_ZONES, d, call, result>>

Next ==
  \/ ToDate
  \/ IsSameDay
  \/ ShiftDate
  \/ ShiftHour
  \/ HasTime
  \/ HumanizedDuration
  \/ ZonedToLocal
  \/ LocalToZoned
  \/ ParseInZone
  \/ FormatInZone
  \/ CurrentZone
  \/ GetCommonZones
  \/ HumanizeZone
  \/ Return
  \/ Tick

Spec == Init /\ [][Next]_vars

(***************************************************************************)
(* What the time-zone database says, for the statements below.             *)
(***************************************************************************)
\* the wall-clock time, in milliseconds, that the instant t shows in a zone
WallClock(zone, t) == t - ZoneUtcOffset(ZoneData(zone), t) * MinuteMs

\* the instants that show the wall-clock time w in a zone: none when a transition
\* skips w, two when a transition repeats it
InstantsAt(zone, w) ==
  LET offsets == ZoneData(zone).offsets
  IN {t \in {w + offsets[i] * MinuteMs : i \in DOMAIN offsets} : WallClock(zone, t) = w}

Skipped(zone, w) == InstantsAt(zone, w) = {}

Earliest(S) == CHOOSE t \in S : \A u \in S : t <= u

\* t is the first (or only) instant that shows its wall-clock time in the zone
IsFirstPass(zone, t) == t = Earliest(InstantsAt(zone, WallClock(zone, t)))

\* the length of the gap that skips the wall-clock time w in the zone, 0 without one
GapAt(zone, w) ==
  LET z == ZoneData(zone)
      gaps == {i \in DOMAIN z.untils :
                 /\ z.offsets[i] > z.offsets[i + 1]
                 /\ z.untils[i] - z.offsets[i] * MinuteMs <= w
                 /\ w < z.untils[i] - z.offsets[i + 1] * MinuteMs}
  IN IF gaps = {} THEN 0
     ELSE LET i == CHOOSE j \in gaps : TRUE
          IN (z.offsets[i] - z.offsets[i + 1]) * MinuteMs

C4_UnknownZoneFails ==
  (/\ call.op \in {"zonedToLocal", "localToZoned", "parseInZone", "formatInZone"}
   /\ call.zone # NoZone
   /\ ~hasZone(call.zone))
    => result.threw

(***************************************************************************)
(* C5. parseInZone.                                                        *)
(***************************************************************************)
\* C5, as claimed: a string with an offset is the instant of that offset, the same
\* for every zone argument and equal to new Date(str); a string without an offset,
\* parsed in a zone, is the instant whose wall-clock fields in the zone are the
\* fields written; without a zone argument the result is new Date(str).
C5_ParseAlways ==
  call.op = "parseInZone"
    => LET str == call.str
           zone == call.zone
       IN /\ str.hasTzm
               => /\ result.value = MakeDate(str.f) - str.tzm * MinuteMs
                  /\ result.value = DateParse(str)
          /\ (~str.hasTzm /\ hasZone(zone))
               => Fields(WallClock(zone, result.value)) = str.f
          /\ zone = NoZone => result.value = DateParse(str)

\* C5, amended: as claimed, but a string without an offset, parsed in a zone, is the
\* earliest instant whose wall-clock fields in the zone are the fields written when
\* there is one; when a transition of the zone skips the wall-clock time written,
\* the result shows it moved forward by the length of the gap.
C5_Parse ==
  call.op = "parseInZone"
    => LET str == call.str
           zone == call.zone
           w == MakeDate(str.f)
       IN /\ str.hasTzm
               => /\ result.value = MakeDate(str.f) - str.tzm * MinuteMs
                  /\ result.value = DateParse(str)
          /\ (~str.hasTzm /\ hasZone(zone))
               => /\ WallClock(zone, result.value) = w + GapAt(zone, w)
                  /\ Skipped(zone, w) <=> GapAt(zone, w) > 0
                  /\ ~Skipped(zone, w) => result.value = Earliest(InstantsAt(zone, w))
          /\ zone = NoZone => result.value = DateParse(str)

\* '..T12:34:56.789' parsed in Australia/Sydney by a process in New York: the
\* instant shows 12:34:56.789 in Sydney and is not what new Date(str) gives
C5_Witness ==
  /\ call.op = "parseInZone"
  /\ call.zone = Sydney
  /\ TZ = NewYork
  /\ ~call.str.hasTzm
  /\ call.str.f.hour = 12 /\ call.str.f.minute = 34
  /\ call.str.f.second = 56 /\ call.str.f.millisecond = 789
  /\ Fields(WallClock(Sydney, result.value)) = call.str.f
  /\ result.value # DateParse(call.str)

(***************************************************************************)
(* C6. humanizedDuration.                                                  *)
(***************************************************************************)
\* C6: with m the span from start to end, the result is the library's phrase exactly
\* when |m| <= 60 minutes or m is a multiple of 60 minutes, and "<m/60 to one
\* decimal> hours" in every other case, negative spans included.
C6_Branch ==
  call.op = "humanizedDuration"
    => LET m == call.u - call.t
       IN IF Abs(m) <= 60 * MinuteMs \/ m % (60 * MinuteMs) = 0
          THEN result.phrase = humanize(m)
          ELSE result.phrase = toFixedHours(m)

OffsetAtLoad(zone) == -ZoneUtcOffset(ZoneData(zone), loadedAt)

\* C9: every call of getCommonZones returns the one list computed at load: each
\* identifier of the zone name table exactly once, every adjacent pair (a, b) with
\* the offset of a at load below that of b, or equal to it and a before b
\* lexicographically.
C9_Sorted ==
  call.op = "getCommonZones"
    => LET l == result.zones
       IN /\ l = COMMON_ZONES
          /\ Len(l) = Len(TimezoneKeys)
          /\ \A i \in DOMAIN TimezoneKeys :
               Cardinality({j \in DOMAIN l : l[j] = TimezoneKeys[i]}) = 1
          /\ \A j \in 1..(Len(l) - 1) :
               \/ OffsetAtLoad(l[j]) < OffsetAtLoad(l[j + 1])
               \/ /\ OffsetAtLoad(l[j]) = OffsetAtLoad(l[j + 1])
                  /\ StrLess(l[j], l[j + 1])

\* a call made after the clock has moved on, whose list has a negative half-hour
\* offset before a negative whole-hour one, two zones of one offset next to each
\* other in the order of their names, and a positive half-hour offset
C9_Witness ==
  /\ call.op = "getCommonZones"
  /\ now > loadedAt
  /\ \E i, j, k \in DOMAIN result.zones :
       /\ result.zones[i] = StJohns /\ OffsetAtLoad(StJohns) = -210
       /\ result.zones[i + 1] = SaoPaulo /\ OffsetAtLoad(SaoPaulo) = -180
       /\ result.zones[j] = NewYork /\ result.zones[j + 1] = Toronto
       /\ result.zones[k] = Kolkata /\ result.zones[k + 1] = Sydney

(***************************************************************************)
(* C10. humanizeZone.                                                      *)
(***************************************************************************)
\* the identifier with every underscore replaced by a space
EveryUnderscoreSpaced(zone) == [i \in DOMAIN zone |-> IF zone[i] = "_" THEN " " ELSE zone[i]]

\* C10: for every valid zone z, humanizeZone(z) is "(GMT<offset>) <name>", <offset>
\* the current signed offset of z, <name> the friendly name of the table when z is
\* in it and otherwise z with every underscore replaced by a space.
C10_Label ==
  call.op = "humanizeZone"
    => LET z == call.zone
           offset == formatOffset(-ZoneUtcOffset(ZoneData(z), now), TRUE)
           name == IF inTIMEZONES(z) THEN TIMEZONES(z) ELSE EveryUnderscoreSpaced(z)
       IN /\ result.text = <<"(", "G", "M", "T">> \o offset \o <<")", " ">> \o name
          /\ ~inTIMEZONES(z) => \A i \in 1..Len(name) : name[i] # "_"

====
